---- MODULE Spec2Model ----
(***************************************************************************)
(* nnfabrik/builder.py: get_data, get_model, get_trainer, get_all_parts.   *)
(*                                                                         *)
(* Every function is an operator that returns [log, out]: `log` is the     *)
(* sequence of the steps the function performed on its collaborators (the  *)
(* helpers of utility.nnf_helper, the three namespaces, the builders, the  *)
(* model's load_state_dict), each with its own outcome, and `out` is the   *)
(* outcome of the function itself: a returned value or a raised error.     *)
(*                                                                         *)
(* Encoding.  An optional value is a sequence of length <= 1: None is <<>>,*)
(* a present value x is <<x>>.  A dotted-path string is the sequence of    *)
(* its segments between the dots ("pkg.build" is <<"pkg", "build">>, the   *)
(* string ".net" is <<"", "net">>).  A keyword mapping is a set of         *)
(* <<key, value>> pairs with unique keys.                                  *)
(***************************************************************************)
EXTENDS Integers, Sequences, FiniteSets, TLC

VARIABLES op, args, pc, log, result, later, invoked

vars == <<op, args, pc, log, result, later, invoked>>

(* ----------------------------- values -------------------------------- *)

None == <<>>
Some(x) == <<x>>
IsNone(o) == Len(o) = 0
Get(o) == o[1]

NoneVal == [kind |-> "None"]
Callable(via, path, name) == [kind |-> "callable", via |-> via, path |-> path, name |-> name]
Result(fn, pos, kw) == [kind |-> "result", fn |-> fn, pos |-> pos, kw |-> kw]
Item(obj, key) == [kind |-> "item", of |-> obj, key |-> key]
Partial(fn, kw) == [kind |-> "partial", fn |-> fn, kw |-> kw]
Tuple(items) == [kind |-> "tuple", items |-> items]
Loader(id) == [kind |-> "dataloader", id |-> id]

Return(v) == [status |-> "return", val |-> v]
Raise(exc, by) == [status |-> "raise", exc |-> exc, by |-> by]
Pending == [status |-> "pending"]
Returned(o) == o.status = "return"
Raised(o) == o.status = "raise"

Ev(name, a, out) == [ev |-> name, args |-> a, out |-> out]
Step(l, o) == [log |-> l, out |-> o]

Keys(kw) == {p[1] : p \in kw}

(* identifiers: a dotted-path string or a callable object *)
Str(segs) == [type |-> "str", segs |-> segs, fn |-> NoneVal]
Fn(name) == [type |-> "callable", segs |-> <<>>, fn |-> Callable("given", <<>>, name)]
isinstance_str(ident) == ident.type = "str"

(* ----------------------- the world outside builder.py ---------------- *)

\* the three packages imported at builder.py:2-4 and the names each defines
Namespace(ns) ==
    CASE ns = "datasets" -> {"loader", "shared"}
      [] ns = "models"   -> {"net", "shared"}
      [] ns = "training" -> {"fit", "shared"}

\* the modules importlib can find, and the attributes each has
ModuleAttrs(path) == IF path = <<"pkg">> THEN {"build", "broken"} ELSE {}
Importable(path) == path = <<"pkg">>

\* the builders that raise when they are invoked
RaisingNames == {"broken", "g"}

\* the keys of the mapping a dataset builder returns
DataKeys == {"train", "validation"}

\* the parameter names of a constructed model
ParamNames == {"w", "b"}

\* what invoking a callable does: a builder returns a fresh object or raises;
\* a functools.partial calls its function with the keywords it has bound
Invoke(fn, pos, kw) ==
    IF fn.name \in RaisingNames
    THEN Raise("BuilderError", fn.name)
    ELSE Return(Result(fn, pos, kw))

\* dataloaders[dl_key]
GetItem(obj, key) ==
    IF key \in DataKeys THEN Return(Item(obj, key)) ELSE Raise("KeyError", key)

\* nn.Module.load_state_dict(state_dict, strict=strict)
load_state_dict(net, state_dict, strict) ==
    IF strict /\ state_dict # ParamNames
    THEN Raise("LoadError", "load_state_dict")
    ELSE Return(NoneVal)

(* -------------------------- utility.nnf_helper ----------------------- *)

\* '.'.join(name.split('.')[:-1]), name.split('.')[-1]
split_module_name(segs) == <<SubSeq(segs, 1, Len(segs) - 1), segs[Len(segs)]>>

\* the truth value of a joined path: '' is falsy
Truthy(path) == path # <<>> /\ path # <<"">>

\* getattr(import_module(path), name)
dynamic_import(path, name) ==
    IF ~Importable(path) THEN Raise("ModuleNotFoundError", name)
    ELSE IF name \notin ModuleAttrs(path) THEN Raise("AttributeError", name)
    ELSE Return(Callable("import", path, name))

(* ------------------------------ builder.py --------------------------- *)

\* eval(ns + '.' + name): an attribute lookup in the package ns
eval_in(ns, segs) ==
    IF \E i \in 1..Len(segs) : segs[i] = "" THEN Raise("SyntaxError", ns)
    ELSE IF Len(segs) # 1 \/ segs[1] \notin Namespace(ns) THEN Raise("AttributeError", segs[Len(segs)])
    ELSE Return(Callable(ns, <<>>, segs[1]))

\* resolve_name with the unsplit name handed to the loader
resolve_name_unsplit(ns, segs) ==
    LET sp == split_module_name(segs)
        e1 == Ev("split_module_name", <<segs>>, Return(sp))
    IN IF Truthy(sp[1])
       THEN LET o == dynamic_import(segs, sp[2])
            IN Step(<<e1, Ev("dynamic_import", <<segs, sp[2]>>, o)>>, o)
       ELSE LET o == eval_in(ns, segs)
            IN Step(<<e1, Ev("eval", <<ns, segs>>, o)>>, o)

\* module_path, class_name = split_module_name(fn)
\* fn = dynamic_import(module_path, class_name) if module_path else eval(ns + '.' + fn)
resolve_name(ns, segs) ==
    LET sp == split_module_name(segs)
        e1 == Ev("split_module_name", <<segs>>, Return(sp))
    IN IF Truthy(sp[1])
       THEN LET o == dynamic_import(sp[1], sp[2])
            IN Step(<<e1, Ev("dynamic_import", <<sp[1], sp[2]>>, o)>>, o)
       ELSE LET o == eval_in(ns, segs)
            IN Step(<<e1, Ev("eval", <<ns, segs>>, o)>>, o)

\* fn(*pos, <explicit keywords>, **config): the keywords are put together first
expand(explicit, config) ==
    IF IsNone(config) THEN Raise("TypeError", "not a mapping")
    ELSE IF Keys(explicit) \cap Keys(Get(config)) # {} THEN Raise("TypeError", "multiple values")
    ELSE Return(explicit \cup Get(config))

call(fn, pos, explicit, config) ==
    LET k == expand(explicit, config)
    IN IF Raised(k) THEN Step(<<Ev("kwargs", <<fn>>, k)>>, k)
       ELSE LET o == Invoke(fn, pos, k.val)
            IN Step(<<Ev("call", <<fn, pos, k.val>>, o)>>, o)

datasets_namespace == "datasets"
\* get_model looking its names up among the datasets
models_namespace_datasets == "datasets"
models_namespace == "models"
training_namespace == "training"

get_data(dataset_fn, dataset_config) ==
    LET r == IF isinstance_str(dataset_fn)
             THEN resolve_name(datasets_namespace, dataset_fn.segs)
             ELSE Step(<<>>, Return(dataset_fn.fn))
    IN IF Raised(r.out) THEN r
       ELSE LET c == call(r.out.val, <<>>, {}, Some(dataset_config))
            IN Step(r.log \o c.log, c.out)

\* model_call with the seed passed positionally
model_call_seed_positional(model_fn, dataloader, seed, model_config) ==
    call(model_fn, <<dataloader, seed>>, {}, Some(model_config))

\* net = model_fn(dataloader, seed=seed, **model_config)
model_call(model_fn, dataloader, seed, model_config) ==
    call(model_fn, <<dataloader>>, {<<"seed", seed>>}, Some(model_config))

\* load_step with the strict flag dropped (load_state_dict's own default is True)
load_step_default_strict(net, state_dict, strict) ==
    IF ~IsNone(state_dict)
    THEN LET o == load_state_dict(net, Get(state_dict), TRUE)
         IN Step(<<Ev("load_state_dict", <<net, Get(state_dict), TRUE>>, o)>>, o)
    ELSE Step(<<>>, Return(NoneVal))

\* if state_dict is not None: net.load_state_dict(state_dict, strict=strict)
load_step(net, state_dict, strict) ==
    IF ~IsNone(state_dict)
    THEN LET o == load_state_dict(net, Get(state_dict), strict)
         IN Step(<<Ev("load_state_dict", <<net, Get(state_dict), strict>>, o)>>, o)
    ELSE Step(<<>>, Return(NoneVal))

get_model(model_fn, model_config, dataloader, seed, state_dict, strict) ==
    LET r == IF isinstance_str(model_fn)
             THEN resolve_name(models_namespace, model_fn.segs)
             ELSE Step(<<>>, Return(model_fn.fn))
    IN IF Raised(r.out) THEN r
       ELSE LET c == model_call(r.out.val, dataloader, seed, model_config)
            IN IF Raised(c.out) THEN Step(r.log \o c.log, c.out)
               ELSE LET l == load_step(c.out.val, state_dict, strict)
                    IN IF Raised(l.out) THEN Step(r.log \o c.log \o l.log, l.out)
                       ELSE Step(r.log \o c.log \o l.log, Return(c.out.val))

\* trainer_call returning the resolved function, as get_data's caller would expect
trainer_call_uninvoked(trainer_fn, trainer_config) == Step(<<>>, Return(trainer_fn))

\* return trainer_fn(**trainer_config)
trainer_call(trainer_fn, trainer_config) == call(trainer_fn, <<>>, {}, trainer_config)

\* trainer_bind binding no keywords
trainer_bind_unbound(trainer_fn, trainer_config) ==
    IF ~IsNone(trainer_config)
    THEN Return(Partial(trainer_fn, {}))
    ELSE Return(NoneVal)

\* trainer_bind with the fallback "return the identifier unchanged"
trainer_bind_fallback(trainer_fn, trainer_config) ==
    IF ~IsNone(trainer_config)
    THEN Return(Partial(trainer_fn, Get(trainer_config)))
    ELSE Return(trainer_fn)

\* if trainer_config is not None: return partial(trainer_fn, **trainer_config)
\* (falling off the end of the function returns None)
trainer_bind(trainer_fn, trainer_config) ==
    IF ~IsNone(trainer_config)
    THEN Return(Partial(trainer_fn, Get(trainer_config)))
    ELSE Return(NoneVal)

get_trainer(trainer_fn, trainer_config) ==
    LET p == <<Ev("print", <<trainer_config>>, Return(NoneVal))>>
    IN IF isinstance_str(trainer_fn)
       THEN LET r == resolve_name(training_namespace, trainer_fn.segs)
            IN IF Raised(r.out) THEN Step(p \o r.log, r.out)
               ELSE LET c == trainer_call(r.out.val, trainer_config)
                    IN Step(p \o r.log \o c.log, c.out)
       ELSE Step(p, trainer_bind(trainer_fn.fn, trainer_config))

\* the defaults of the signatures: dl_key='train', strict=True
default_dl_key == "train"
default_strict == TRUE
Default(o, d) == IF IsNone(o) THEN d ELSE Get(o)

\* extract with the key fixed to 'train'
extract_train(dataloaders, dl_key) ==
    LET o == GetItem(dataloaders, "train")
    IN Step(<<Ev("getitem", <<dataloaders, "train">>, o)>>, o)

\* dataloaders[dl_key]
extract(dataloaders, dl_key) ==
    LET o == GetItem(dataloaders, dl_key)
    IN Step(<<Ev("getitem", <<dataloaders, dl_key>>, o)>>, o)

\* trainer_part recovering from a failing trainer with a None trainer
trainer_part_recovering(dataloaders, model, trainer_fn, trainer_config) ==
    IF ~IsNone(trainer_fn)
    THEN LET t == get_trainer(Get(trainer_fn), trainer_config)
         IN IF Raised(t.out) THEN Step(t.log, Return(Tuple(<<dataloaders, model, NoneVal>>)))
            ELSE Step(t.log, Return(Tuple(<<dataloaders, model, t.out.val>>)))
    ELSE Step(<<>>, Return(Tuple(<<dataloaders, model>>)))

\* if trainer_fn is not None: ... return dataloaders, model, trainer
\* else: return dataloaders, model
trainer_part(dataloaders, model, trainer_fn, trainer_config) ==
    IF ~IsNone(trainer_fn)
    THEN LET t == get_trainer(Get(trainer_fn), trainer_config)
         IN IF Raised(t.out) THEN t
            ELSE Step(t.log, Return(Tuple(<<dataloaders, model, t.out.val>>)))
    ELSE Step(<<>>, Return(Tuple(<<dataloaders, model>>)))

get_all_parts(dataset_fn, dataset_config, model_fn, model_config, seed, dl_key, state_dict, strict, trainer_fn, trainer_config) ==
    LET d == get_data(dataset_fn, dataset_config)
    IN IF Raised(d.out) THEN d
       ELSE LET x == extract(d.out.val, dl_key)
            IN IF Raised(x.out) THEN Step(d.log \o x.log, x.out)
               ELSE LET m == get_model(model_fn, model_config, x.out.val, seed, state_dict, strict)
                    IN IF Raised(m.out) THEN Step(d.log \o x.log \o m.log, m.out)
                       ELSE LET t == trainer_part(d.out.val, m.out.val, trainer_fn, trainer_config)
                            IN Step(d.log \o x.log \o m.log \o t.log, t.out)

(* --------------------------- the inputs ------------------------------ *)

MaxSegs == 2
MaxInvocations == 2

Segments == {"", "pkg", "shared", "net", "loader", "fit", "build", "broken"}
Strings == UNION {[1..n -> Segments] : n \in 1..MaxSegs}
Idents == {Str(s) : s \in Strings} \cup {Fn("f"), Fn("g")}
\* the identifiers get_all_parts is driven with: one of each way to succeed or fail
PartIdents == {Str(<<"shared">>), Str(<<"build">>), Str(<<"pkg", "build">>), Fn("f"), Fn("g")}

DataConfigs == {{}, {<<"batch_size", Some(32)>>}}
ModelConfigs == {{}, {<<"hidden", Some(64)>>}, {<<"hidden", Some(64)>>, <<"seed", Some(7)>>}}
TrainerConfigs == {None, Some({}), Some({<<"lr", Some(1)>>})}
Seeds == {None, Some(42)}
DlKeys == {None, Some("validation"), Some("test")}
StateDicts == {None, Some({"w", "b"}), Some({"w"}), Some({"w", "b", "x"})}
Stricts == {None, Some(FALSE)}

NoArgs == [dataset_fn |-> Fn("f"), dataset_config |-> {}, model_fn |-> Fn("f"),
           model_config |-> {}, dataloader |-> Loader("dl"), seed |-> None,
           dl_key |-> None, state_dict |-> None, strict |-> None,
           trainer_fn |-> None, trainer_config |-> None]

DataArgs == {[NoArgs EXCEPT !.dataset_fn = f, !.dataset_config = c] :
                f \in Idents, c \in DataConfigs}
ModelArgs == {[NoArgs EXCEPT !.model_fn = f, !.model_config = c, !.seed = s,
                             !.state_dict = sd, !.strict = st] :
                f \in Idents, c \in ModelConfigs, s \in Seeds, sd \in StateDicts, st \in Stricts}
TrainerArgs == {[NoArgs EXCEPT !.trainer_fn = Some(f), !.trainer_config = c] :
                f \in Idents, c \in TrainerConfigs}
PartsArgs == {[dataset_fn |-> df, dataset_config |-> {<<"batch_size", Some(32)>>},
               model_fn |-> mf, model_config |-> mc, dataloader |-> Loader("dl"),
               seed |-> s, dl_key |-> k, state_dict |-> sd, strict |-> st,
               trainer_fn |-> tf, trainer_config |-> tc] :
                df \in PartIdents, mf \in PartIdents, mc \in ModelConfigs, s \in Seeds,
                k \in DlKeys, sd \in {None, Some({"w", "b"}), Some({"w"})}, st \in Stricts,
                tf \in {None} \cup {Some(f) : f \in PartIdents},
                tc \in {None, Some({<<"lr", Some(1)>>})}}

(* -------------------------- the state machine ------------------------ *)

Init ==
    /\ pc = "ready"
    /\ \/ op = "get_data" /\ args \in DataArgs
       \/ op = "get_model" /\ args \in ModelArgs
       \/ op = "get_trainer" /\ args \in TrainerArgs
       \/ op = "get_all_parts" /\ args \in PartsArgs
    /\ log = <<>>
    /\ result = Pending
    /\ later = <<>>
    /\ invoked = 0

Finish(r) ==
    /\ log' = r.log
    /\ result' = r.out
    /\ pc' = "done"
    /\ UNCHANGED <<op, args, later, invoked>>

GetData ==
    /\ pc = "ready" /\ op = "get_data"
    /\ Finish(get_data(args.dataset_fn, args.dataset_config))

GetModel ==
    /\ pc = "ready" /\ op = "get_model"
    /\ Finish(get_model(args.model_fn, args.model_config, args.dataloader, args.seed,
                        args.state_dict, Default(args.strict, default_strict)))

GetTrainer ==
    /\ pc = "ready" /\ op = "get_trainer"
    /\ Finish(get_trainer(Get(args.trainer_fn), args.trainer_config))

GetAllParts ==
    /\ pc = "ready" /\ op = "get_all_parts"
    /\ Finish(get_all_parts(args.dataset_fn, args.dataset_config, args.model_fn,
                            args.model_config, args.seed,
                            Default(args.dl_key, default_dl_key), args.state_dict,
                            Default(args.strict, default_strict), args.trainer_fn,
                            args.trainer_config))

\* the trainer a finished call handed back: get_trainer's value, or the third
\* element of get_all_parts' triple
Trainer ==
    IF result.status # "return" THEN NoneVal
    ELSE IF result.val.kind = "tuple"
         THEN IF Len(result.val.items) = 3 THEN result.val.items[3] ELSE NoneVal
         ELSE result.val

\* partial(fn, **kw)(): fn(**kw)
invoke_partial(p) ==
    LET o == Invoke(p.fn, <<>>, p.kw)
    IN Step(<<Ev("call", <<p.fn, <<>>, p.kw>>, o)>>, o)

\* the caller invokes the returned partial with no further arguments
InvokeTrainer ==
    /\ pc = "done"
    /\ op \in {"get_trainer", "get_all_parts"}
    /\ Trainer.kind = "partial"
    /\ invoked < MaxInvocations
    /\ invoked' = invoked + 1
    /\ later' = later \o invoke_partial(Trainer).log
    /\ UNCHANGED <<op, args, pc, log, result>>

Next == GetData \/ GetModel \/ GetTrainer \/ GetAllParts \/ InvokeTrainer

Spec == Init /\ [][Next]_vars
(* ------------------------- reading the log --------------------------- *)

Done == pc = "done"
Idx(l, name) == {i \in 1..Len(l) : l[i].ev = name}
Count(l, name) == Cardinality(Idx(l, name))
The(l, name) == l[CHOOSE i \in Idx(l, name) : TRUE]
Only(l, names) == SelectSeq(l, LAMBDA e : e.ev \in names)
Shape(l) == [i \in 1..Len(l) |-> l[i].ev]
From(l, i) == SubSeq(l, i, Len(l))

\* the identifier the running operation resolves
Ident ==
    CASE op = "get_data" -> args.dataset_fn
      [] op = "get_model" -> args.model_fn
      [] op = "get_trainer" -> Get(args.trainer_fn)
      [] OTHER -> Fn("f")
NsOf(o) ==
    CASE o = "get_data" -> "datasets"
      [] o = "get_model" -> "models"
      [] OTHER -> "training"
Single == Done /\ op \in {"get_data", "get_model", "get_trainer"}
HasModulePath(ident) ==
    /\ ident.type = "str"
    /\ SubSeq(ident.segs, 1, Len(ident.segs) - 1) \notin {<<>>, <<"">>}
NoModulePath(ident) ==
    /\ ident.type = "str"
    /\ SubSeq(ident.segs, 1, Len(ident.segs) - 1) \in {<<>>, <<"">>}
\* the callable an identifier stands for, once the log shows it resolved:
\* the callable itself, or what the lookup before position i returned
ResolvedAt(ident, l, i) == IF ident.type = "str" THEN l[i - 1].out.val ELSE ident.fn
ResolutionOk(ident, l) ==
    ident.type = "str" =>
        \E i \in 1..Len(l) : l[i].ev \in {"dynamic_import", "eval"} /\ Returned(l[i].out)

(* ------------------------------ claims ------------------------------- *)

\* C1: get_all_parts, when no step raises: the dataset builder is invoked once
\* with dataset_config as keywords; entry dl_key (default 'train') of its result
\* is taken; the model builder is invoked once with that entry as the only
\* positional argument and seed plus model_config as keywords; the value is the
\* pair (dataloaders, model), dataloaders being the dataset builder's whole
\* result.  With a trainer_fn it then runs get_trainer(trainer_fn,
\* trainer_config) and returns the triple; three elements iff trainer_fn is given.
C1_AllPartsSequence ==
    (Done /\ op = "get_all_parts" /\ Returned(result)) =>
        LET main == Only(log, {"call", "getitem", "print"})
            iData == CHOOSE i \in Idx(log, "call") : \A j \in Idx(log, "call") : i <= j
            iItem == CHOOSE i \in Idx(log, "getitem") : TRUE
            iModel == CHOOSE i \in Idx(log, "call") : i > iItem /\ \A j \in Idx(log, "call") : j > iItem => i <= j
            data == log[iData]
            item == log[iItem]
            model == log[iModel]
            items == result.val.items
        IN /\ Len(main) >= 3
           /\ Shape(SubSeq(main, 1, 3)) = <<"call", "getitem", "call">>
           /\ Count(log, "getitem") = 1
           /\ data.args[1] = ResolvedAt(args.dataset_fn, log, iData)
           /\ data.args[2] = <<>>
           /\ data.args[3] = args.dataset_config
           /\ item.args[1] = data.out.val
           /\ item.args[2] = (IF IsNone(args.dl_key) THEN "train" ELSE Get(args.dl_key))
           /\ model.args[1] = ResolvedAt(args.model_fn, log, iModel)
           /\ model.args[2] = <<item.out.val>>
           /\ model.args[3] = {<<"seed", args.seed>>} \cup args.model_config
           /\ result.val.kind = "tuple"
           /\ items[1] = data.out.val
           /\ items[2] = model.out.val
           /\ (Len(items) = 3) <=> ~IsNone(args.trainer_fn)
           /\ Len(items) \in {2, 3}
           /\ IsNone(args.trainer_fn) => Len(main) = 3
           /\ ~IsNone(args.trainer_fn) =>
                LET t == get_trainer(Get(args.trainer_fn), args.trainer_config)
                    iPrint == CHOOSE i \in Idx(log, "print") : TRUE
                IN /\ Count(log, "print") = 1
                   /\ iPrint > iModel
                   /\ From(log, iPrint) = t.log
                   /\ items[3] = t.out.val

C1_Witness ==
    /\ Done /\ op = "get_all_parts" /\ Returned(result)
    /\ Len(result.val.items) = 3
    /\ args.dl_key = Some("validation")
    /\ args.dataset_fn.type = "str" /\ args.model_fn.type = "str"

\* C2: for get_data, get_model and get_trainer: a string whose split has a
\* non-empty module path makes exactly one dynamic_import call, with exactly the
\* pair split_module_name returned, and no namespace lookup; a callable makes no
\* split_module_name, dynamic_import or namespace lookup and is itself the one used.
C2_DynamicOrNone ==
    Single =>
        /\ HasModulePath(Ident) =>
              /\ Count(log, "dynamic_import") = 1
              /\ Count(log, "split_module_name") = 1
              /\ The(log, "split_module_name").args = <<Ident.segs>>
              /\ The(log, "dynamic_import").args = The(log, "split_module_name").out.val
              /\ Count(log, "eval") = 0
        /\ Ident.type = "callable" =>
              /\ Count(log, "split_module_name") = 0
              /\ Count(log, "dynamic_import") = 0
              /\ Count(log, "eval") = 0
              /\ \A i \in Idx(log, "call") : log[i].args[1] = Ident.fn
              /\ (Returned(result) /\ result.val.kind = "partial") => result.val.fn = Ident.fn
              /\ op \in {"get_data", "get_model"} => Count(log, "call") + Count(log, "kwargs") = 1

C2_Witness ==
    /\ Single /\ op = "get_model"
    /\ Ident = Str(<<"pkg", "build">>)
    /\ Returned(result)

\* C3: a string whose module-path portion is empty is looked up in the
\* namespace of the operation (get_data: datasets, get_model: models,
\* get_trainer: training), never in the other two and never through
\* dynamic_import; if the symbol is absent there the operation fails with an
\* error and no builder is invoked.
C3_FixedNamespace ==
    (Single /\ NoModulePath(Ident)) =>
        /\ Count(log, "eval") = 1
        /\ The(log, "eval").args = <<NsOf(op), Ident.segs>>
        /\ Count(log, "dynamic_import") = 0
        /\ (Len(Ident.segs) = 1 /\ Ident.segs[1] \notin Namespace(NsOf(op))) =>
              /\ Raised(result)
              /\ Count(log, "call") = 0
        /\ (Returned(The(log, "eval").out)) =>
              /\ The(log, "eval").out.val.via = NsOf(op)
              /\ \A i \in Idx(log, "call") : log[i].args[1].via = NsOf(op)

C3_Witness ==
    /\ Single /\ op = "get_model"
    /\ Ident = Str(<<"loader">>)
    /\ Raised(result)
    /\ Count(log, "call") = 0

C5_CallableTrainerDeferred ==
    (Done /\ op = "get_trainer" /\ Ident.type = "callable" /\ ~IsNone(args.trainer_config)) =>
        /\ Count(log, "call") = 0
        /\ Returned(result)
        /\ result.val.kind = "partial"
        /\ result.val # Ident.fn
        /\ Len(later) = invoked
        /\ \A i \in 1..Len(later) :
              /\ later[i].ev = "call"
              /\ later[i].args = <<Ident.fn, <<>>, Get(args.trainer_config)>>
              /\ later[i].out = Invoke(Ident.fn, <<>>, Get(args.trainer_config))

C5_Witness ==
    /\ Done /\ op = "get_trainer"
    /\ Ident = Fn("f")
    /\ args.trainer_config = Some({<<"lr", Some(1)>>})
    /\ invoked = 2
    /\ Returned(later[2].out)

\* C6 as stated: get_model always passes the dataloader as the first and only
\* positional argument of the resolved builder and seed and every key of
\* model_config as keywords, never the dataloader as a keyword; the builder is
\* invoked exactly once per get_model call (of a resolved builder).
C6_Original ==
    (Done /\ op = "get_model" /\ ResolutionOk(Ident, log)) =>
        /\ Count(log, "call") = 1
        /\ The(log, "call").args[2] = <<args.dataloader>>
        /\ The(log, "call").args[3] = {<<"seed", args.seed>>} \cup args.model_config

\* C6 amended: every invocation get_model makes of the builder has the
\* dataloader as its only positional argument and exactly seed and the keys of
\* model_config as keywords; the builder is invoked at most once per call, and
\* exactly once when it resolved and model_config has no key 'seed'.  With a key
\* 'seed' in model_config the call fails with a TypeError and the builder is not
\* invoked.
C6_ModelCallShape ==
    (Done /\ op = "get_model") =>
        /\ Count(log, "call") <= 1
        /\ \A i \in Idx(log, "call") :
              /\ log[i].args[1] = ResolvedAt(Ident, log, i)
              /\ log[i].args[2] = <<args.dataloader>>
              /\ log[i].args[3] = {<<"seed", args.seed>>} \cup args.model_config
              /\ Keys(log[i].args[3]) = {"seed"} \cup Keys(args.model_config)
              /\ Cardinality(log[i].args[3]) = Cardinality(Keys(log[i].args[3]))
        /\ (ResolutionOk(Ident, log) /\ "seed" \notin Keys(args.model_config)) =>
              Count(log, "call") = 1
        /\ (ResolutionOk(Ident, log) /\ "seed" \in Keys(args.model_config)) =>
              /\ Count(log, "call") = 0
              /\ result = Raise("TypeError", "multiple values")

C6_Witness ==
    /\ Done /\ op = "get_model"
    /\ Ident = Str(<<"net">>)
    /\ args.model_config = {<<"hidden", Some(64)>>}
    /\ args.seed = Some(42)
    /\ Count(log, "call") = 1
    /\ Returned(result)

C6_SeedKeyWitness ==
    /\ Done /\ op = "get_model"
    /\ "seed" \in Keys(args.model_config)
    /\ ResolutionOk(Ident, log)
    /\ Count(log, "call") = 0

\* C7: in get_model (the builder having returned a model) the blob is loaded
\* iff state_dict is not None; the load happens exactly once, after the builder
\* returned and as the last step before get_model returns, on the object the
\* builder returned, with the caller's strict flag unchanged.  So a blob whose
\* parameter names differ from the model's makes get_model fail with the load
\* error under strict=True and return the model under strict=False.
C7_LoadStateDict ==
    (Done /\ op = "get_model" /\ Count(log, "call") = 1 /\ Returned(The(log, "call").out)) =>
        LET net == The(log, "call").out.val
            strict == IF IsNone(args.strict) THEN TRUE ELSE Get(args.strict)
            last == log[Len(log)]
        IN /\ (Count(log, "load_state_dict") = 1) <=> ~IsNone(args.state_dict)
           /\ Count(log, "load_state_dict") <= 1
           /\ IsNone(args.state_dict) => result = Return(net)
           /\ ~IsNone(args.state_dict) =>
                /\ last.ev = "load_state_dict"
                /\ log[Len(log) - 1].ev = "call"
                /\ last.args = <<net, Get(args.state_dict), strict>>
                /\ Returned(last.out) => result = Return(net)
                /\ Raised(last.out) => result = last.out
                /\ (Get(args.state_dict) # ParamNames /\ strict) =>
                      result = Raise("LoadError", "load_state_dict")
                /\ (Get(args.state_dict) # ParamNames /\ ~strict) => result = Return(net)

C7_Witness ==
    /\ Done /\ op = "get_model"
    /\ args.state_dict = Some({"w"})
    /\ args.strict = Some(FALSE)
    /\ Count(log, "load_state_dict") = 1
    /\ Returned(result)

\* C8: in get_all_parts an error raised in any step aborts the call at once:
\* the failing step is the last one performed (a failing data step leaves the
\* model builder and the trainer uninvoked, a failing model step leaves the
\* trainer unresolved and uninvoked), nothing is returned, and the error that
\* reaches the caller is the very one the step raised.
C8_ErrorsPropagate ==
    (Done /\ op = "get_all_parts") =>
        /\ Len(log) >= 1
        /\ \A i \in 1..(Len(log) - 1) : Returned(log[i].out)
        /\ Raised(log[Len(log)].out) => result = log[Len(log)].out
        /\ Raised(result) => result = log[Len(log)].out
        /\ Raised(result) =>
              LET n == Count(log, "call") + Count(log, "kwargs")
              IN /\ Count(log, "getitem") = 0 => (n <= 1 /\ Count(log, "print") = 0)
                 /\ Count(log, "print") = 0 => n <= 2
                 /\ n <= 3

C8_Witness ==
    /\ Done /\ op = "get_all_parts"
    /\ result = Raise("BuilderError", "g")
    /\ args.model_fn = Fn("g")
    /\ ~IsNone(args.trainer_fn)
    /\ Count(log, "print") = 0

C10_StringTrainerNoConfig ==
    /\ (Done /\ op = "get_trainer" /\ Ident.type = "str" /\ IsNone(args.trainer_config)
             /\ ResolutionOk(Ident, log)) =>
          /\ Count(log, "call") = 1
          /\ The(log, "call").args[3] = {}
          /\ result = The(log, "call").out
    /\ (Done /\ op = "get_all_parts" /\ ~IsNone(args.trainer_fn) /\ IsNone(args.trainer_config)
             /\ Count(log, "print") = 1
             /\ Get(args.trainer_fn) \in {Str(<<"shared">>), Str(<<"pkg", "build">>)}) =>
          /\ Returned(result)
          /\ Len(result.val.items) = 3
====
